---- MODULE Spec2Model ----
(***************************************************************************)
(* Model of the subprocess.exec command of the evergreen agent             *)
(* (src/command/exec.go): normalization of the command specification       *)
(* (ParseParams, splitCommands), expansion (doExpansions), and the         *)
(* execution of the process under the caller's or a private cancellation   *)
(* signal (Execute, getProc, runCommand).                                  *)
(*                                                                         *)
(* A Go string is modelled as a sequence of tokens; a token is one         *)
(* character, or one expansion reference: "${x}" is a well-formed          *)
(* reference to the expansion x, "${" is an unclosed reference.  The empty *)
(* string is the empty sequence.                                           *)
(***************************************************************************)
EXTENDS Integers, Sequences, FiniteSets, TLC

VARIABLES
    params,     \* the raw parameters handed to ParseParams
    exp,        \* conf.Expansions: the expansion mapping of the task
    c,          \* the subprocessExec value (exec.go:23-77)
    pc,         \* position of the command in its life: ParseParams, Execute
    result,     \* what ParseParams / Execute returned ("none" while running)
    catcher,    \* doExpansions: the failures the catcher has collected
    attempted,  \* doExpansions: the fields whose expansion was attempted
    ctxDone,    \* the caller's cancellation signal (ctx) has fired
    firedProc,  \* the state of the process when that signal fired ("" before)
    ictx,       \* the signal the process was created under: none/caller/private
    privDone,   \* the private signal (context.WithCancel) has been cancelled
    proc,       \* the OS process: none, running, exited_ok, exited_fail, killed
    trigger,    \* the completion trigger: none, registered, failed, fired
    tracked,    \* util.TrackProcess: the PIDs recorded for the task
    runErr,     \* the error cmd.Run returned
    log,        \* the log records emitted so far, in order
    trig,       \* package alerts: the task trigger under evaluation
    alertRecords, \* the alert records stored so far (collection of alertrecord)
    seen,       \* first-failure triggers: the keys of the failed tasks evaluated
    last        \* the latest evaluation: <<>> before the first one

\* the state of the command execution
execVars == <<params, exp, c, pc, result, catcher, attempted, ctxDone, firedProc, ictx,
              privDone, proc, trigger, tracked, runErr, log>>

\* the state of the alert triggers
alertVars == <<trig, alertRecords, seen, last>>

vars == <<params, exp, c, pc, result, catcher, attempted, ctxDone, firedProc, ictx,
          privDone, proc, trigger, tracked, runErr, log, trig, alertRecords, seen, last>>

(***************************************************************************)
(* Bounds of the model.                                                    *)
(***************************************************************************)
\* longest command string drawn for normalization
MaxCmdLen == 3
\* longest argument list drawn for normalization
MaxArgs == 1

Empty == <<>>

\* the characters command strings are drawn from: a letter, a blank, a quote
CmdChars == {"a", " ", "'"}

RECURSIVE StringsUpTo(_, _)
StringsUpTo(chars, n) ==
    IF n = 0 THEN {Empty}
    ELSE LET shorter == StringsUpTo(chars, n - 1)
         IN  shorter \cup {Append(s, ch) : s \in shorter, ch \in chars}

RECURSIVE SeqsUpTo(_, _)
SeqsUpTo(elems, n) ==
    IF n = 0 THEN {<<>>}
    ELSE LET shorter == SeqsUpTo(elems, n - 1)
         IN  shorter \cup {Append(s, e) : s \in shorter, e \in elems}

(***************************************************************************)
(* shlex.Split: shell-word splitting.  Blanks separate words, a quote      *)
(* opens a quoted stretch that runs to the next quote, and the end of the  *)
(* input inside a quoted stretch is an error.  The words read before the   *)
(* error are returned with it.                                             *)
(*   st: "start" (between words), "word" (in a word), "quote" (in quotes)  *)
(***************************************************************************)
RECURSIVE ShlexScan(_, _, _, _, _)
ShlexScan(s, i, st, cur, toks) ==
    IF i > Len(s)
    THEN IF st = "quote" THEN [toks |-> toks, err |-> TRUE]
         ELSE IF st = "word" THEN [toks |-> Append(toks, cur), err |-> FALSE]
         ELSE [toks |-> toks, err |-> FALSE]
    ELSE LET ch == s[i] IN
         IF st = "quote"
         THEN IF ch = "'" THEN ShlexScan(s, i + 1, "word", cur, toks)
              ELSE ShlexScan(s, i + 1, "quote", Append(cur, ch), toks)
         ELSE IF ch = " "
              THEN IF st = "word" THEN ShlexScan(s, i + 1, "start", Empty, Append(toks, cur))
                   ELSE ShlexScan(s, i + 1, "start", Empty, toks)
              ELSE IF ch = "'" THEN ShlexScan(s, i + 1, "quote", cur, toks)
              ELSE ShlexScan(s, i + 1, "word", Append(cur, ch), toks)

ShlexSplit(s) == ShlexScan(s, 1, "start", Empty, <<>>)

(***************************************************************************)
(* mapstructure.Decode: the raw parameters become the fields of c; a       *)
(* parameter of the wrong type makes the decoding fail.                    *)
(***************************************************************************)
Decode(p) == [x \in (DOMAIN p) \ {"malformed"} |-> p[x]]

(***************************************************************************)
(* splitCommands (exec.go:107-126)                                         *)
(***************************************************************************)
\* mutant: the conflict between command and binary/args is not checked
splitCommands_NoConflictCheck(cmd) ==
    IF cmd.Command # Empty
    THEN LET sp == ShlexSplit(cmd.Command) IN
         IF sp.err THEN [c |-> cmd, err |-> "ParseError"]
         ELSE IF Len(sp.toks) = 0 THEN [c |-> cmd, err |-> "NoArguments"]
         ELSE [c |-> [cmd EXCEPT !.Binary = sp.toks[1],
                                 !.Args = IF Len(sp.toks) > 1 THEN Tail(sp.toks) ELSE @],
               err |-> "nil"]
    ELSE [c |-> cmd, err |-> "nil"]

\* mutant: the command string is tokenized but binary and args are not set from it
splitCommands_NoAssign(cmd) ==
    IF cmd.Command # Empty
    THEN IF cmd.Binary # Empty \/ Len(cmd.Args) > 0
         THEN [c |-> cmd, err |-> "ConfigurationConflict"]
         ELSE LET sp == ShlexSplit(cmd.Command) IN
              IF sp.err THEN [c |-> cmd, err |-> "ParseError"]
              ELSE IF Len(sp.toks) = 0 THEN [c |-> cmd, err |-> "NoArguments"]
              ELSE [c |-> cmd, err |-> "nil"]
    ELSE [c |-> cmd, err |-> "nil"]

splitCommands(cmd) ==
    IF cmd.Command # Empty
    THEN IF cmd.Binary # Empty \/ Len(cmd.Args) > 0
         THEN [c |-> cmd, err |-> "ConfigurationConflict"]
         ELSE LET sp == ShlexSplit(cmd.Command) IN
              IF sp.err THEN [c |-> cmd, err |-> "ParseError"]
              ELSE IF Len(sp.toks) = 0 THEN [c |-> cmd, err |-> "NoArguments"]
              ELSE [c |-> [cmd EXCEPT !.Binary = sp.toks[1],
                                      !.Args = IF Len(sp.toks) > 1 THEN Tail(sp.toks) ELSE @],
                    err |-> "nil"]
    ELSE [c |-> cmd, err |-> "nil"]

(***************************************************************************)
(* ParseParams (exec.go:82-105).  The receiver is changed in place, so the *)
(* value of c is returned together with the error.                         *)
(***************************************************************************)
\* mutant: ignoring stdout while redirecting stderr to it is not refused
ParseParams_NoRedirectCheck(cmd, p) ==
    IF p.malformed THEN [c |-> cmd, err |-> "DecodeError"]
    ELSE LET sc == splitCommands(Decode(p)) IN
         IF sc.err # "nil" THEN sc
         ELSE [c |-> [sc.c EXCEPT !.IgnoreStandardError = @ \/ sc.c.Silent,
                                  !.IgnoreStandardOutput = @ \/ sc.c.Silent,
                                  !.EnvNil = FALSE],
               err |-> "nil"]

\* mutant: silent forces only the standard output to be ignored
ParseParams_SilentStdoutOnly(cmd, p) ==
    IF p.malformed THEN [c |-> cmd, err |-> "DecodeError"]
    ELSE LET sc == splitCommands(Decode(p)) IN
         IF sc.err # "nil" THEN sc
         ELSE LET s1 == [sc.c EXCEPT !.IgnoreStandardOutput = @ \/ sc.c.Silent]
              IN  IF s1.IgnoreStandardOutput /\ s1.RedirectStandardErrorToOutput
                  THEN [c |-> s1, err |-> "ConfigurationConflict"]
                  ELSE [c |-> [s1 EXCEPT !.EnvNil = FALSE], err |-> "nil"]

\* mutant: the redirection is checked before silent forces the ignore flags
ParseParams_CheckBeforeSilent(cmd, p) ==
    IF p.malformed THEN [c |-> cmd, err |-> "DecodeError"]
    ELSE LET sc == splitCommands(Decode(p)) IN
         IF sc.err # "nil" THEN sc
         ELSE IF sc.c.IgnoreStandardOutput /\ sc.c.RedirectStandardErrorToOutput
              THEN [c |-> sc.c, err |-> "ConfigurationConflict"]
              ELSE [c |-> [sc.c EXCEPT !.IgnoreStandardError = @ \/ sc.c.Silent,
                                       !.IgnoreStandardOutput = @ \/ sc.c.Silent,
                                       !.EnvNil = FALSE],
                    err |-> "nil"]

ParseParams(cmd, p) ==
    IF p.malformed THEN [c |-> cmd, err |-> "DecodeError"]
    ELSE LET sc == splitCommands(Decode(p)) IN
         IF sc.err # "nil" THEN sc
         ELSE LET s1 == IF sc.c.Silent
                        THEN [sc.c EXCEPT !.IgnoreStandardError = TRUE,
                                          !.IgnoreStandardOutput = TRUE]
                        ELSE sc.c
              IN  IF s1.IgnoreStandardOutput /\ s1.RedirectStandardErrorToOutput
                  THEN [c |-> s1, err |-> "ConfigurationConflict"]
                  ELSE [c |-> [s1 EXCEPT !.EnvNil = FALSE], err |-> "nil"]

(***************************************************************************)
(* Maps (Go map[string]string) are functions from keys to strings.         *)
(***************************************************************************)
EmptyMap == [k \in {} |-> Empty]

MapPut(m, k, v) == [x \in (DOMAIN m) \cup {k} |-> IF x = k THEN v ELSE m[x]]

\* the keys of a map in the order a loop over it visits them
RECURSIVE KeysOf(_)
KeysOf(ks) ==
    IF ks = {} THEN <<>>
    ELSE LET k == CHOOSE x \in ks : TRUE IN <<k>> \o KeysOf(ks \ {k})

(***************************************************************************)
(* exp.ExpandString: every reference ${x} is replaced by the value of the  *)
(* expansion x (by the empty string when x is not defined); a string that  *)
(* still holds an unclosed "${" afterwards is returned with an error.      *)
(***************************************************************************)
RECURSIVE Substitute(_, _)
Substitute(e, s) ==
    IF s = Empty THEN Empty
    ELSE LET rest == Substitute(e, Tail(s)) IN
         IF Head(s) = "${x}"
         THEN (IF "x" \in DOMAIN e THEN e["x"] ELSE Empty) \o rest
         ELSE <<Head(s)>> \o rest

ExpandString(e, s) ==
    LET out == Substitute(e, s)
    IN  [s |-> out, err |-> \E i \in 1..Len(out) : out[i] = "${"]

(***************************************************************************)
(* doExpansions (exec.go:128-188).  acc holds the command being expanded,  *)
(* the catcher and the set of expansions attempted so far; a failure is    *)
(* recorded under the label of the field it belongs to.                    *)
(***************************************************************************)
Lbl(f, i, k) == [f |-> f, i |-> i, k |-> k]

\* catcher.Add(err): a nil error is not recorded
catcherAdd(cat, label, err) ==
    IF err THEN cat \cup {label} ELSE cat

\* mutant: no expansion is attempted once one has failed
expandStep_ShortCircuit(acc, e, label, s) ==
    IF acc.catcher # {} THEN [acc EXCEPT !.val = s]
    ELSE LET r == ExpandString(e, s) IN
         [acc EXCEPT !.val = r.s,
                     !.attempted = @ \cup {label},
                     !.catcher = catcherAdd(@, label, r.err)]

\* x, err = exp.ExpandString(x); catcher.Add(err)
expandStep(acc, e, label, s) ==
    LET r == ExpandString(e, s) IN
    [acc EXCEPT !.val = r.s,
                !.attempted = @ \cup {label},
                !.catcher = catcherAdd(@, label, r.err)]

\* the loop over c.Args (exec.go:141-156): a is acc after the expansion of
\* the argument idx
retokenize(a, idx, sp) ==
    [a EXCEPT !.catcher = catcherAdd(@, Lbl("ArgsSplit", idx, ""), sp.err),
              !.val = sp.toks]

argTokens(a, idx) ==
    IF a.val = Empty THEN [a EXCEPT !.val = <<Empty>>]
    ELSE retokenize(a, idx, ShlexSplit(a.val))

RECURSIVE expandArgs(_, _, _, _), expandArgsFrom(_, _, _, _)
expandArgs(acc, e, idx, newArgs) ==
    IF idx > Len(acc.c.Args) THEN [acc EXCEPT !.c.Args = newArgs]
    ELSE expandArgsFrom(
            argTokens(expandStep(acc, e, Lbl("Args", idx, ""), acc.c.Args[idx]), idx),
            e, idx, newArgs)

expandArgsFrom(a, e, idx, newArgs) == expandArgs(a, e, idx + 1, newArgs \o a.val)

\* the loop over c.Env (exec.go:158-161)
setEnv(a, k) == [a EXCEPT !.c.Env[k] = a.val]

RECURSIVE expandEnv(_, _, _)
expandEnv(acc, e, keys) ==
    IF keys = <<>> THEN acc
    ELSE expandEnv(
            setEnv(expandStep(acc, e, Lbl("Env", 0, Head(keys)), acc.c.Env[Head(keys)]),
                   Head(keys)),
            e, Tail(keys))

\* the loop over c.Path (exec.go:165-168)
RECURSIVE expandPath(_, _, _, _), expandPathFrom(_, _, _, _)
expandPath(acc, e, idx, path) ==
    IF idx > Len(acc.c.Path) THEN [acc EXCEPT !.val = path]
    ELSE expandPathFrom(expandStep(acc, e, Lbl("Path", idx, ""), acc.c.Path[idx]),
                        e, idx, path)

expandPathFrom(a, e, idx, path) == expandPath(a, e, idx + 1, Append(path, a.val))

\* os.Getenv("PATH") of the agent
InheritedPath == <<"/bin">>

\* strings.Join(path, string(filepath.ListSeparator))
RECURSIVE JoinPath(_)
JoinPath(segs) ==
    IF segs = <<>> THEN Empty
    ELSE IF Len(segs) = 1 THEN segs[1]
    ELSE segs[1] \o <<":">> \o JoinPath(Tail(segs))

\* mutant: an expansion is copied only when the environment lacks its key
RECURSIVE CopyAll_OnlyAbsent(_, _, _)
CopyAll_OnlyAbsent(env, e, keys) ==
    IF keys = <<>> THEN env
    ELSE CopyAll_OnlyAbsent(IF Head(keys) \in DOMAIN env THEN env
                            ELSE MapPut(env, Head(keys), e[Head(keys)]),
                            e, Tail(keys))

\* for k, v := range expansions { c.Env[k] = v }
RECURSIVE CopyAll(_, _, _)
CopyAll(env, e, keys) ==
    IF keys = <<>> THEN env
    ELSE CopyAll(MapPut(env, Head(keys), e[Head(keys)]), e, Tail(keys))

\* for _, ei := range c.IncludeExpansionsInEnv { ... }
RECURSIVE CopyIncluded(_, _, _)
CopyIncluded(env, e, names) ==
    IF names = <<>> THEN env
    ELSE CopyIncluded(IF Head(names) \in DOMAIN e
                      THEN MapPut(env, Head(names), e[Head(names)]) ELSE env,
                      e, Tail(names))

\* errors.Wrap(catcher.Resolve(), ...): nil when the catcher is empty
resolveErr(cat) == IF cat = {} THEN "nil" ELSE "ExpansionError"

\* exec.go:132-139: the working directory, the binary, the command string
setWorkingDir(acc) == [acc EXCEPT !.c.WorkingDir = acc.val]

expandWorkingDir(acc, e) ==
    setWorkingDir(expandStep(acc, e, Lbl("WorkingDir", 0, ""), acc.c.WorkingDir))

setBinary(acc) == [acc EXCEPT !.c.Binary = acc.val]

expandBinary(acc, e) ==
    setBinary(expandStep(acc, e, Lbl("Binary", 0, ""), acc.c.Binary))

setCommand(acc) == [acc EXCEPT !.c.Command = acc.val]

expandCommand(acc, e) ==
    setCommand(expandStep(acc, e, Lbl("Command", 0, ""), acc.c.Command))

\* exec.go:158-161
expandEnvAll(acc, e) == expandEnv(acc, e, KeysOf(DOMAIN acc.c.Env))

\* mutant: the inherited PATH comes first, the added segments after it
setPath_InheritedFirst(acc) ==
    [acc EXCEPT !.c.Env = MapPut(@, "PATH", JoinPath(<<InheritedPath>> \o acc.val))]

\* exec.go:163-172: PATH is set only when add_to_path is not empty
setPath(acc) ==
    [acc EXCEPT !.c.Env = MapPut(@, "PATH", JoinPath(Append(acc.val, InheritedPath)))]

expandPathAll(acc, e) ==
    IF Len(acc.c.Path) > 0 THEN setPath(expandPath(acc, e, 1, <<>>)) ELSE acc

\* exec.go:174-185
copyExpansions(env, e, addAll, included) ==
    CopyIncluded(IF addAll THEN CopyAll(env, e, KeysOf(DOMAIN e)) ELSE env, e, included)

copyExpansionsToEnv(acc, e) ==
    [acc EXCEPT !.c.Env = copyExpansions(@, e, acc.c.AddExpansionsToEnv,
                                         acc.c.IncludeExpansionsInEnv)]

expansionResult(acc) ==
    [c |-> acc.c, catcher |-> acc.catcher, attempted |-> acc.attempted,
     err |-> resolveErr(acc.catcher)]

doExpansions(cmd, e) ==
    expansionResult(
      copyExpansionsToEnv(
        expandPathAll(
          expandEnvAll(
            expandArgs(
              expandCommand(
                expandBinary(
                  expandWorkingDir(
                    [c |-> cmd, catcher |-> {}, attempted |-> {}, val |-> Empty],
                    e), e), e), e, 1, <<>>), e), e), e))

(***************************************************************************)
(* The task the command runs in (conf): its id, its working directory, and *)
(* the agent's own process id as strconv.Itoa(os.Getpid()) prints it.      *)
(***************************************************************************)
TaskID == <<"t1">>
AgentPID == <<"4321">>
WorkDir == <<"/work">>
MarkerTaskID == "EVR_TASK_ID"
MarkerAgentPID == "EVR_AGENT_PID"

\* conf.GetWorkingDirectory(dir): dir under the task's working directory,
\* an error when that path is no directory
GetWorkingDirectory(dir, exists) ==
    IF ~exists THEN [s |-> Empty, err |-> TRUE]
    ELSE IF dir = Empty THEN [s |-> WorkDir, err |-> FALSE]
    ELSE IF Head(dir) = Head(WorkDir) THEN [s |-> dir, err |-> FALSE]
    ELSE [s |-> WorkDir \o <<"/">> \o dir, err |-> FALSE]

\* addTempDirs (exec.go:261-268)
RECURSIVE addTempDirsLoop(_, _, _)
addTempDirsLoop(env, dir, keys) ==
    IF keys = <<>> THEN env
    ELSE addTempDirsLoop(IF Head(keys) \in DOMAIN env THEN env
                         ELSE MapPut(env, Head(keys), dir),
                         dir, Tail(keys))

addTempDirs(env, dir) == addTempDirsLoop(env, dir, <<"TMP", "TMPDIR", "TEMP">>)

\* mutant: the loop runs forward and skips the argument after a removed one
RECURSIVE stripForward(_, _)
stripForward(args, j) ==
    IF j > Len(args) THEN args
    ELSE IF args[j] = Empty
         THEN stripForward(SubSeq(args, 1, j - 1) \o SubSeq(args, j + 1, Len(args)), j + 1)
         ELSE stripForward(args, j + 1)

stripEmptyArgs_Forward(args, i) == stripForward(args, 1)

\* the loop of Execute that removes the empty arguments (exec.go:298-304)
RECURSIVE stripEmptyArgs(_, _)
stripEmptyArgs(args, i) ==
    IF i < 1 THEN args
    ELSE IF args[i] = Empty
         THEN stripEmptyArgs(SubSeq(args, 1, i - 1) \o SubSeq(args, i + 1, Len(args)), i - 1)
         ELSE stripEmptyArgs(args, i - 1)

\* mutant: CI is set whether or not the user has set it
getProcEnv_AlwaysCI(cmd, taskID) ==
    LET e1 == MapPut(cmd.Env, MarkerTaskID, taskID)
        e2 == MapPut(e1, MarkerAgentPID, AgentPID)
        e3 == IF "GOCACHE" \in DOMAIN e2 THEN e2
              ELSE MapPut(e2, "GOCACHE", cmd.WorkingDir \o <<"/", ".gocache">>)
    IN  MapPut(e3, "CI", <<"true">>)

\* the environment getProc hands to the process (exec.go:191-200)
getProcEnv(cmd, taskID) ==
    LET e1 == MapPut(cmd.Env, MarkerTaskID, taskID)
        e2 == MapPut(e1, MarkerAgentPID, AgentPID)
        e3 == IF "GOCACHE" \in DOMAIN e2 THEN e2
              ELSE MapPut(e2, "GOCACHE", cmd.WorkingDir \o <<"/", ".gocache">>)
    IN  IF "CI" \in DOMAIN e3 THEN e3 ELSE MapPut(e3, "CI", <<"true">>)

(***************************************************************************)
(* Log records.                                                            *)
(***************************************************************************)
Rec(sink, level, msg) == [sink |-> sink, level |-> level, msg |-> msg, fields |-> <<>>]

\* message.WrapError(err, message.Fields{...}) of runCommand (exec.go:333-339)
FailureRecord(cmd, taskID) ==
    [sink |-> "execution", level |-> "notice", msg |-> "run error",
     fields |-> [task |-> taskID, binary |-> cmd.Binary,
                 background |-> cmd.Background, silent |-> cmd.Silent,
                 continue |-> cmd.ContinueOnError]]

(***************************************************************************)
(* The zero value of subprocessExec and the parameters drawn for it.       *)
(***************************************************************************)
ZeroCmd ==
    [Binary |-> Empty, Args |-> <<>>, Env |-> EmptyMap, EnvNil |-> TRUE,
     Command |-> Empty, Path |-> <<>>, AddExpansionsToEnv |-> FALSE,
     IncludeExpansionsInEnv |-> <<>>, Background |-> FALSE, Silent |-> FALSE,
     SystemLog |-> FALSE, WorkingDir |-> Empty, IgnoreStandardOutput |-> FALSE,
     IgnoreStandardError |-> FALSE, RedirectStandardErrorToOutput |-> FALSE,
     ContinueOnError |-> FALSE, KeepEmptyArgs |-> FALSE]

\* raw parameters: the fields of the command and whether one is of a wrong type
Raw(cmd, malformed) ==
    [x \in (DOMAIN cmd) \cup {"malformed"} |-> IF x = "malformed" THEN malformed ELSE cmd[x]]

(***************************************************************************)
(* ParseParams, as the step of the agent that reads the command.           *)
(***************************************************************************)
ParseParamsStep ==
    /\ pc = "new"
    /\ LET r == ParseParams(c, params) IN
       /\ c' = r.c
       /\ result' = r.err
       /\ pc' = IF r.err = "nil" THEN "parsed" ELSE "parseFailed"
    /\ UNCHANGED <<alertVars, params, exp, catcher, attempted, ctxDone, firedProc, ictx, privDone, proc,
                   trigger, tracked, runErr, log>>

(***************************************************************************)
(* Execute up to the call of cmd.Run (exec.go:270-312, getProc 190-204,    *)
(* runCommand 326-328).  wdExists and tmpExists say whether the working    *)
(* directory and the task's tmp directory exist.                           *)
(***************************************************************************)
\* mutant: the error of doExpansions is not looked at
expansionFailed_Ignored(r) == FALSE

\* if err = c.doExpansions(conf.Expansions); err != nil
expansionFailed(r) == r.err # "nil"

\* exec.go:296-304 and getProc's environment: the command handed to jasper
withTempDirs(cmd, dir) == [cmd EXCEPT !.Env = addTempDirs(@, dir)]

withoutEmptyArgs(cmd) ==
    IF cmd.KeepEmptyArgs THEN cmd ELSE [cmd EXCEPT !.Args = stripEmptyArgs(@, Len(@))]

withProcEnv(cmd) == [cmd EXCEPT !.Env = getProcEnv(cmd, TaskID)]

builtCommand(cmd, wd, td) ==
    withProcEnv(withoutEmptyArgs(withTempDirs([cmd EXCEPT !.WorkingDir = wd.s], td.s)))

ExecuteFrom(r, wd, td) ==
    /\ catcher' = r.catcher
    /\ attempted' = r.attempted
    /\ IF expansionFailed(r)
       THEN /\ c' = r.c
            /\ log' = Append(log, Rec("execution", "error", "problem expanding command values"))
            /\ result' = "ExpansionError"
            /\ pc' = "returned"
       ELSE IF wd.err
       THEN /\ c' = [r.c EXCEPT !.WorkingDir = wd.s]
            /\ log' = Append(log, Rec("execution", "warning", "working directory"))
            /\ result' = "WorkDirError"
            /\ pc' = "returned"
       ELSE /\ c' = builtCommand(r.c, wd, td)
            /\ log' = log
                 \o (IF td.err THEN <<Rec("execution", "notice", "tmp directory")>> ELSE <<>>)
                 \o <<Rec("execution", "debug", "working_directory")>>
                 \o (IF r.c.Silent
                     THEN <<Rec("execution", "info", "executing command in silent mode")>>
                     ELSE <<>>)
            /\ result' = "none"
            /\ pc' = "built"

ExecuteOn(r, wdExists, tmpExists) ==
    ExecuteFrom(r, GetWorkingDirectory(r.c.WorkingDir, wdExists),
                GetWorkingDirectory(<<"tmp">>, tmpExists))

ExecutePrepare(wdExists, tmpExists) ==
    /\ pc = "parsed"
    /\ ExecuteOn(doExpansions(c, exp), wdExists, tmpExists)
    /\ UNCHANGED <<alertVars, params, exp, ctxDone, firedProc, ictx, privDone, proc, trigger, tracked, runErr>>

(***************************************************************************)
(* The ProcConstructor of getProc (exec.go:205-240), called by cmd.Run.    *)
(***************************************************************************)
\* the PID the operating system gives the process
ProcPid == 7

\* mutant: the process is always created under the context handed in
chooseCtx_AlwaysCaller(background) == "caller"

\* exec.go:208-212: a private context in the background, else lctx
chooseCtx(background) == IF background THEN "private" ELSE "caller"

\* mutant: the private context is not cancelled when the creation fails
cancelOnFailure_Missing(signal) == privDone

\* exec.go:216-218: if cancel != nil { cancel() }
cancelOnFailure(signal) == IF signal = "private" THEN TRUE ELSE privDone

\* c.JasperManager().CreateProcess(ictx, opts) and its error path
CreateProcess(ok) ==
    /\ pc = "built"
    /\ ictx' = chooseCtx(c.Background)
    /\ IF ok
       THEN /\ proc' = "running"
            /\ pc' = "created"
            /\ UNCHANGED <<privDone, runErr>>
       ELSE /\ privDone' = cancelOnFailure(ictx')
            /\ runErr' = "LaunchError"
            /\ pc' = "ran"
            /\ UNCHANGED proc
    /\ UNCHANGED <<alertVars, params, exp, c, result, catcher, attempted, ctxDone, firedProc, trigger,
                   tracked, log>>

\* mutant: only an attached process is entered into the registry
trackProcess_AttachedOnly(reg, taskID, pid) ==
    IF c.Background THEN reg ELSE reg \cup {<<taskID, pid>>}

\* exec.go:229-231: pid := proc.Info(ctx).PID; util.TrackProcess(taskID, pid, ...)
trackProcess(reg, taskID, pid) == reg \cup {<<taskID, pid>>}

\* exec.go:223-239: the completion trigger, the PID registry, the handle.
\* RegisterTrigger refuses a process that has already exited, and may fail.
FinishConstructor(regOk) ==
    /\ pc = "created"
    /\ (proc # "running" => ~regOk)
    /\ trigger' = IF ictx # "private" THEN "none"
                  ELSE IF regOk THEN "registered" ELSE "failed"
    /\ tracked' = trackProcess(tracked, TaskID, ProcPid)
    /\ log' = log
         \o (IF ictx = "private" /\ ~regOk
             THEN <<Rec("grip", "warning", "problem registering cancellation for process")>>
             ELSE <<>>)
         \o <<IF c.Background
              THEN Rec("execution", "debug", "running command in the background")
              ELSE Rec("execution", "info", "started process with pid")>>
    /\ pc' = "started"
    /\ UNCHANGED <<alertVars, params, exp, c, result, catcher, attempted, ctxDone, firedProc, ictx,
                   privDone, proc, runErr>>

(***************************************************************************)
(* cmd.Run(ctx) returns (exec.go:330): at once for a background command,   *)
(* for an attached one when the process is over or the caller's signal has *)
(* fired.                                                                  *)
(***************************************************************************)
RunReturns ==
    /\ pc = "started"
    /\ c.Background \/ proc # "running" \/ ctxDone
    /\ runErr' = IF c.Background \/ proc = "exited_ok" THEN "nil" ELSE "ProcessFailure"
    /\ pc' = "ran"
    /\ UNCHANGED <<alertVars, params, exp, c, result, catcher, attempted, ctxDone, firedProc, ictx,
                   privDone, proc, trigger, tracked, log>>

(***************************************************************************)
(* The end of runCommand (exec.go:332-343) and of Execute (314-322).       *)
(***************************************************************************)
\* mutant: the error is dropped under continue_on_err without a record
continueLog_Silent(cmd, err) == <<>>

\* logger.Execution().Notice(message.WrapError(err, ...)): a wrapped nil
\* error is not logged
continueLog(cmd, err) ==
    IF err # "nil" THEN <<FailureRecord(cmd, TaskID)>> ELSE <<>>

\* mutant: continue_on_err is honoured after the cancellation check
executeResult_ContinueLast(cmd, err, cancelled) ==
    IF cmd.ContinueOnError THEN "nil"
    ELSE IF cancelled THEN "Aborted" ELSE err

\* mutant: only an attached command is reported as aborted
executeResult_AttachedOnly(cmd, err, cancelled) ==
    IF cancelled /\ ~cmd.Background THEN "Aborted"
    ELSE IF cmd.ContinueOnError THEN "nil" ELSE err

\* what Execute returns: err is what cmd.Run returned, cancelled is ctx.Err() != nil
executeResult(cmd, err, cancelled) ==
    IF cancelled THEN "Aborted"
    ELSE IF cmd.ContinueOnError THEN "nil" ELSE err

\* what runCommand returns (exec.go:332-343)
runCommandResult(cmd, err) == IF cmd.ContinueOnError THEN "nil" ELSE err

\* logger.Execution().Notice(err): a nil error is not logged
errorNotice(err) ==
    IF err # "nil"
    THEN <<[Rec("execution", "notice", "error") EXCEPT !.fields = <<err>>]>>
    ELSE <<>>

\* mutant: the cancellation is reported without the dump of the processes
abortLog_NoDump(cancelled, err) == IF cancelled THEN errorNotice(err) ELSE <<>>

\* exec.go:314-318: the dump of the tracked processes, then the error
abortLog(cancelled, err) ==
    IF cancelled
    THEN <<Rec("system", "debug", "dumping running processes"),
           Rec("system", "debug", "all processes")>> \o errorNotice(err)
    ELSE <<>>

ExecuteFinish ==
    /\ pc = "ran"
    /\ log' = log
         \o (IF c.ContinueOnError THEN continueLog(c, runErr) ELSE <<>>)
         \o abortLog(ctxDone, runCommandResult(c, runErr))
    /\ result' = executeResult(c, runErr, ctxDone)
    /\ pc' = "returned"
    /\ UNCHANGED <<alertVars, params, exp, c, catcher, attempted, ctxDone, firedProc, ictx, privDone,
                   proc, trigger, tracked, runErr>>

(***************************************************************************)
(* The environment: the caller, the operating system, the process manager. *)
(***************************************************************************)
\* the caller cancels ctx
CallerCancels ==
    /\ ~ctxDone
    /\ pc \in {"parsed", "built", "created", "started", "ran", "returned"}
    /\ ctxDone' = TRUE
    /\ firedProc' = proc
    /\ UNCHANGED <<alertVars, params, exp, c, pc, result, catcher, attempted, ictx, privDone,
                   proc, trigger, tracked, runErr, log>>

\* the signal the process was created under has fired
ProcSignalDone ==
    \/ ictx = "caller" /\ ctxDone
    \/ ictx = "private" /\ privDone

\* the process exits by itself
ProcessExits(ok) ==
    /\ proc = "running"
    /\ proc' = IF ok THEN "exited_ok" ELSE "exited_fail"
    /\ UNCHANGED <<alertVars, params, exp, c, pc, result, catcher, attempted, ctxDone, firedProc, ictx,
                   privDone, trigger, tracked, runErr, log>>

\* the process is terminated because its signal has fired
ProcessKilled ==
    /\ proc = "running"
    /\ ProcSignalDone
    /\ proc' = "killed"
    /\ UNCHANGED <<alertVars, params, exp, c, pc, result, catcher, attempted, ctxDone, firedProc, ictx,
                   privDone, trigger, tracked, runErr, log>>

\* the completion trigger runs: func(info jasper.ProcessInfo) { cancel() }
TriggerFires ==
    /\ trigger = "registered"
    /\ proc \in {"exited_ok", "exited_fail", "killed"}
    /\ trigger' = "fired"
    /\ privDone' = TRUE
    /\ UNCHANGED <<alertVars, params, exp, c, pc, result, catcher, attempted, ctxDone, firedProc, ictx,
                   proc, tracked, runErr, log>>

(***************************************************************************)
(* Specifications.                                                         *)
(***************************************************************************)
InitRest ==
    /\ c = ZeroCmd
    /\ pc = "new"
    /\ result = "none"
    /\ catcher = {}
    /\ attempted = {}
    /\ ctxDone = FALSE
    /\ firedProc = ""
    /\ ictx = "none"
    /\ privDone = FALSE
    /\ proc = "none"
    /\ trigger = "none"
    /\ tracked = {}
    /\ runErr = "none"
    /\ log = <<>>

\* no alert trigger is evaluated while a command is executed
NoAlerts ==
    /\ trig = "none"
    /\ alertRecords = {}
    /\ seen = {}
    /\ last = <<>>

\* the expansions of the task: x undefined, x two words, x an open quote,
\* x an unclosed reference
ExpChoices ==
    {EmptyMap, [k \in {"x"} |-> <<"b", " ", "b">>], [k \in {"x"} |-> <<"'">>],
     [k \in {"x"} |-> <<"${">>]}

\* the commands executed: a binary with arguments, a command string, both
\* (a conflict), an unclosed quote, an unclosed expansion in the binary or
\* in an argument
ExecShapes ==
    {[ZeroCmd EXCEPT !.Binary = <<"a">>, !.Args = << <<"${x}">>, Empty >>],
     [ZeroCmd EXCEPT !.Command = <<"a", " ", "a">>],
     [ZeroCmd EXCEPT !.Command = <<"a">>, !.Binary = <<"a">>],
     [ZeroCmd EXCEPT !.Command = <<"'", "a">>],
     [ZeroCmd EXCEPT !.Binary = <<"${">>],
     [ZeroCmd EXCEPT !.Binary = <<"a">>, !.Args = << <<"${">> >>, !.WorkingDir = <<"${">>]}

ExecParams ==
    {Raw([s EXCEPT !.Background = bg, !.ContinueOnError = coe, !.Silent = sil], FALSE) :
        s \in ExecShapes, bg \in BOOLEAN, coe \in BOOLEAN, sil \in BOOLEAN}

Init ==
    /\ params \in ExecParams
    /\ exp \in {EmptyMap, [k \in {"x"} |-> <<"b", " ", "b">>]}
    /\ InitRest
    /\ NoAlerts

Next ==
    \/ ParseParamsStep
    \/ \E wdExists \in BOOLEAN, tmpExists \in BOOLEAN : ExecutePrepare(wdExists, tmpExists)
    \/ \E ok \in BOOLEAN : CreateProcess(ok)
    \/ \E regOk \in BOOLEAN : FinishConstructor(regOk)
    \/ RunReturns
    \/ ExecuteFinish
    \/ CallerCancels
    \/ \E ok \in BOOLEAN : ProcessExits(ok)
    \/ ProcessKilled
    \/ TriggerFires

Spec == Init /\ [][Next]_vars

\* normalization alone, over every small specification
NormParams ==
    {Raw([ZeroCmd EXCEPT !.Command = cmd, !.Binary = bin, !.Args = args,
                         !.Silent = sil, !.IgnoreStandardOutput = io,
                         !.IgnoreStandardError = ie,
                         !.RedirectStandardErrorToOutput = re,
                         !.Env = env, !.EnvNil = (env = EmptyMap)], mal) :
        cmd \in StringsUpTo(CmdChars, MaxCmdLen),
        bin \in {Empty, <<"b">>},
        args \in SeqsUpTo({Empty, <<"c">>}, MaxArgs),
        sil \in BOOLEAN, io \in BOOLEAN, ie \in BOOLEAN, re \in BOOLEAN,
        env \in {EmptyMap, [k \in {"K"} |-> <<"v">>]},
        mal \in BOOLEAN}

InitNorm ==
    /\ params \in NormParams
    /\ exp = EmptyMap
    /\ InitRest
    /\ NoAlerts

\* the normalized command, its command string cleared, is normalized again
Renormalize ==
    /\ pc = "parsed"
    /\ LET r == ParseParams(c, Raw([c EXCEPT !.Command = Empty], FALSE)) IN
       /\ c' = r.c
       /\ result' = r.err
       /\ pc' = IF r.err = "nil" THEN "renormalized" ELSE "renormalizeFailed"
    /\ UNCHANGED <<alertVars, params, exp, catcher, attempted, ctxDone, firedProc, ictx, privDone,
                   proc, trigger, tracked, runErr, log>>

NextNorm == ParseParamsStep \/ Renormalize

SpecNorm == InitNorm /\ [][NextNorm]_vars

\* expansion alone, over specifications with failing and multi-word expansions
MaxExpArgs == 2
MaxPath == 2

ExpandParams ==
    {Raw([ZeroCmd EXCEPT !.WorkingDir = wd, !.Binary = bin, !.Command = cmd,
                         !.Args = args, !.Env = env, !.Path = path], FALSE) :
        wd \in {Empty, <<"${">>},
        bin \in {Empty, <<"a">>, <<"${">>},
        cmd \in {Empty, <<"a", " ", "${">>},
        args \in SeqsUpTo({Empty, <<"${x}">>, <<"${">>}, MaxExpArgs),
        env \in {EmptyMap, [k \in {"K"} |-> <<"${x}">>], [k \in {"K", "L"} |-> <<"${">>]},
        path \in SeqsUpTo({<<"p">>, <<"${">>}, MaxPath)}

InitExpand ==
    /\ params \in ExpandParams
    /\ exp \in ExpChoices
    /\ InitRest
    /\ NoAlerts

NextExpand ==
    \/ ParseParamsStep
    \/ \E wdExists \in BOOLEAN, tmpExists \in BOOLEAN : ExecutePrepare(wdExists, tmpExists)

SpecExpand == InitExpand /\ [][NextExpand]_vars

\* the composition of the environment and of the argument list: user values
\* and expansions under the names of the derived variables, empty and blank
\* arguments
EnvParams ==
    {Raw([ZeroCmd EXCEPT !.Binary = <<"a">>, !.Args = args, !.KeepEmptyArgs = keep,
                         !.Path = path, !.Env = env, !.EnvNil = (env = EmptyMap),
                         !.AddExpansionsToEnv = addAll,
                         !.IncludeExpansionsInEnv = incl], FALSE) :
        args \in SeqsUpTo({Empty, <<"a">>, <<" ">>, <<"${x}">>}, MaxExpArgs),
        keep \in BOOLEAN,
        path \in {<<>>, << <<"p">> >>, << <<"${x}">>, <<"q">> >>},
        env \in {EmptyMap,
                 [k \in {"PATH"} |-> <<"u">>],
                 [k \in {"CI", "GOCACHE", "TMP"} |-> <<"u">>],
                 [k \in {MarkerTaskID, MarkerAgentPID, "TEMP"} |-> <<"u">>]},
        addAll \in BOOLEAN,
        incl \in {<<>>, <<"PATH", "y">>}}

EnvExpChoices ==
    {EmptyMap,
     [k \in {"x"} |-> <<"b", " ", "b">>],
     [k \in {"x", "PATH", "CI"} |-> IF k = "x" THEN <<" ">> ELSE <<"e">>],
     [k \in {MarkerTaskID, MarkerAgentPID, "TMP"} |-> <<"e">>]}

InitEnv ==
    /\ params \in EnvParams
    /\ exp \in EnvExpChoices
    /\ InitRest
    /\ NoAlerts

SpecEnv == InitEnv /\ [][NextExpand]_vars

(***************************************************************************)
(* Package alerts: the task triggers (exec.go:346-561).  A trigger is asked *)
(* ShouldExecute for a finished task; when it answers true its alert record *)
(* is stored.  The records, their queries and the task lookups live in      *)
(* packages outside this file.                                              *)
(***************************************************************************)
\* highest revision order number drawn for a task
MaxOrder == 2

\* most alert records stored in one history
MaxRecords == 2

\* most keys whose record lookup fails in one history of a first-failure trigger
MaxLookupFailures == 1

\* exec.go:458
failureLimitMultiplier == 3

\* evergreen.TaskFailed, evergreen.TaskSucceeded
TaskFailed == "failed"

TaskSucceeded == "success"

\* the ids of the record types (package alertrecord)
FirstVersionFailureId == "first_version_failure"

FirstVariantFailureId == "first_variant_failure"

FirstTaskTypeFailureId == "first_tasktype_failure"

TaskFailTransitionId == "task_transition_failure"

\* the tasks of a version: a display name on a build variant
TaskTypes ==
    {<<"compile", "linux-64">>, <<"compile", "windows">>, <<"unit-tests", "windows">>}

\* the version of a revision: one version per revision order number
VersionOf(r) == <<"v", r>>

\* the finished tasks a trigger is asked about
Tasks ==
    {[Id |-> <<tt[1], tt[2], r>>, Project |-> "p", Version |-> VersionOf(r),
      BuildVariant |-> tt[2], DisplayName |-> tt[1], RevisionOrderNumber |-> r,
      Status |-> st] :
        tt \in TaskTypes, r \in 1..MaxOrder, st \in {TaskFailed, TaskSucceeded}}

\* ctx.previousCompleted == nil
NoPrevious == [nil |-> TRUE, Status |-> "", RevisionOrderNumber |-> 0]

\* ctx.previousCompleted: the previous completed run of the task, at an older
\* revision; it is read for a failed task only
PreviousOf(t) ==
    IF t.Status # TaskFailed THEN {NoPrevious}
    ELSE {NoPrevious} \cup
         {[nil |-> FALSE, Status |-> st, RevisionOrderNumber |-> r] :
             st \in {TaskFailed, TaskSucceeded}, r \in 1..(t.RevisionOrderNumber - 1)}

\* newAlertRecord(ctx, recordType): the record of the task, under a fresh id
newAlertRecord(ctx, recordType, id) ==
    [Id |-> id, Type |-> recordType, ProjectId |-> ctx.task.Project,
     VersionId |-> ctx.task.Version,
     RevisionOrderNumber |-> ctx.task.RevisionOrderNumber,
     TaskName |-> ctx.task.DisplayName, Variant |-> ctx.task.BuildVariant,
     TaskId |-> ctx.task.Id]

\* the queries of package alertrecord: the fields a record has to match
ByFirstFailureInVersion(projectId, versionId) ==
    [Type |-> FirstVersionFailureId, ProjectId |-> projectId, VersionId |-> versionId]

ByFirstFailureInVariant(versionId, variant) ==
    [Type |-> FirstVariantFailureId, VersionId |-> versionId, Variant |-> variant]

ByFirstFailureInTaskType(versionId, taskName) ==
    [Type |-> FirstTaskTypeFailureId, VersionId |-> versionId, TaskName |-> taskName]

\* matching records come highest revision order number first
ByLastFailureTransition(taskName, variant, projectId) ==
    [Type |-> TaskFailTransitionId, TaskName |-> taskName, Variant |-> variant,
     ProjectId |-> projectId]

Matching(q, records) == {r \in records : \A k \in DOMAIN q : r[k] = q[k]}

Highest(rs) ==
    CHOOSE r \in rs : \A o \in rs :
        \/ r.RevisionOrderNumber > o.RevisionOrderNumber
        \/ r.RevisionOrderNumber = o.RevisionOrderNumber /\ r.Id >= o.Id

\* alertrecord.FindOne(q): db.ok says whether the lookup works; isNil is rec == nil
FindOne(q, db) ==
    IF ~db.ok THEN [isNil |-> TRUE, err |-> "lookup error", RevisionOrderNumber |-> 0,
                    TaskId |-> <<>>]
    ELSE IF Matching(q, db.records) = {}
    THEN [isNil |-> TRUE, err |-> "nil", RevisionOrderNumber |-> 0, TaskId |-> <<>>]
    ELSE LET rec == Highest(Matching(q, db.records))
         IN [isNil |-> FALSE, err |-> "nil",
             RevisionOrderNumber |-> rec.RevisionOrderNumber, TaskId |-> rec.TaskId]

\* what ShouldExecute returns
Answer(res, err) == [res |-> res, err |-> err]

\* what reachedFailureLimit finds for the task of the last alert: its lookups
\* work and find the task, the project ref, the project and the variant; the
\* task finished `elapsed` minutes ago and the batch time is `batchTime`
Found(elapsed) ==
    [taskErr |-> FALSE, taskNil |-> FALSE, refErr |-> FALSE, refNil |-> FALSE,
     projectErr |-> FALSE, projectNil |-> FALSE, variantNil |-> FALSE,
     elapsed |-> elapsed, batchTime |-> 1]

\* the lookups drawn: all found, just at and just past the limit; the task
\* lookup failing; the variant gone from the project
Lookups ==
    {Found(failureLimitMultiplier), Found(failureLimitMultiplier + 1)} \cup
    {[Found(failureLimitMultiplier + 1) EXCEPT ![f] = TRUE] : f \in {"taskErr", "variantNil"}}

\* reachedFailureLimit is called only after a previous run that failed and a
\* record lookup that worked
LookupsAfter(prev, ok) == IF prev.Status = TaskFailed /\ ok THEN Lookups ELSE {Found(0)}

\* exec.go:515-545
reachedFailureLimit(taskId, w) ==
    IF w.taskErr THEN Answer(FALSE, "lookup error")
    ELSE IF w.taskNil THEN Answer(FALSE, "task not found")
    ELSE IF w.refErr THEN Answer(FALSE, "lookup error")
    ELSE IF w.refNil THEN Answer(FALSE, "project ref not found")
    ELSE IF w.projectErr THEN Answer(FALSE, "lookup error")
    ELSE IF w.projectNil THEN Answer(FALSE, "project not found for revision")
    ELSE IF w.variantNil THEN Answer(FALSE, "build variant does not exist in project")
    ELSE Answer(w.elapsed > w.batchTime * failureLimitMultiplier, "nil")

\* mutant: the answer is that of a record found
FirstFailureInVersion_Inverted(ctx, db) ==
    IF ctx.task.Status # TaskFailed THEN Answer(FALSE, "nil")
    ELSE Answer(~FindOne(ByFirstFailureInVersion(ctx.task.Project, ctx.task.Version), db).isNil,
                "nil")

\* exec.go:387-396
FirstFailureInVersion_ShouldExecute(ctx, db) ==
    IF ctx.task.Status # TaskFailed THEN Answer(FALSE, "nil")
    ELSE LET rec == FindOne(ByFirstFailureInVersion(ctx.task.Project, ctx.task.Version), db)
         IN IF rec.err # "nil" THEN Answer(FALSE, rec.err)
            ELSE Answer(rec.isNil, "nil")

\* exec.go:410-419: the error of the lookup is not returned
FirstFailureInVariant_ShouldExecute(ctx, db) ==
    IF ctx.task.Status # TaskFailed THEN Answer(FALSE, "nil")
    ELSE LET rec == FindOne(ByFirstFailureInVariant(ctx.task.Version, ctx.task.BuildVariant), db)
         IN IF rec.err # "nil" THEN Answer(FALSE, "nil")
            ELSE Answer(rec.isNil, "nil")

\* exec.go:436-445: the error of the lookup is not returned
FirstFailureInTaskType_ShouldExecute(ctx, db) ==
    IF ctx.task.Status # TaskFailed THEN Answer(FALSE, "nil")
    ELSE LET rec == FindOne(ByFirstFailureInTaskType(ctx.task.Version, ctx.task.DisplayName), db)
         IN IF rec.err # "nil" THEN Answer(FALSE, "nil")
            ELSE Answer(rec.isNil, "nil")

\* exec.go:487-498: the previous run failed
afterFailure(ctx, lastAlerted, w) ==
    IF lastAlerted.err # "nil" THEN Answer(FALSE, lastAlerted.err)
    ELSE IF lastAlerted.isNil \/ lastAlerted.TaskId = <<>> THEN Answer(FALSE, "nil")
    ELSE reachedFailureLimit(lastAlerted.TaskId, w)

\* mutant: an alert for the same last passing task is sent again
TaskFailTransition_SameAgain(ctx, db, w) ==
    LET lastAlerted == FindOne(ByLastFailureTransition(ctx.task.DisplayName,
                                   ctx.task.BuildVariant, ctx.task.Project), db)
    IN IF ctx.task.Status # TaskFailed THEN Answer(FALSE, "nil")
       ELSE IF ctx.previousCompleted.nil THEN Answer(TRUE, "nil")
       ELSE IF ctx.previousCompleted.Status = TaskSucceeded
       THEN IF lastAlerted.err # "nil" THEN Answer(FALSE, lastAlerted.err)
            ELSE Answer(lastAlerted.isNil \/ lastAlerted.RevisionOrderNumber
                                               <= ctx.previousCompleted.RevisionOrderNumber,
                        "nil")
       ELSE IF ctx.previousCompleted.Status = TaskFailed
       THEN afterFailure(ctx, lastAlerted, w)
       ELSE Answer(FALSE, "nil")

\* exec.go:464-500
TaskFailTransition_ShouldExecute(ctx, db, w) ==
    LET lastAlerted == FindOne(ByLastFailureTransition(ctx.task.DisplayName,
                                   ctx.task.BuildVariant, ctx.task.Project), db)
    IN IF ctx.task.Status # TaskFailed THEN Answer(FALSE, "nil")
       ELSE IF ctx.previousCompleted.nil THEN Answer(TRUE, "nil")
       ELSE IF ctx.previousCompleted.Status = TaskSucceeded
       THEN IF lastAlerted.err # "nil" THEN Answer(FALSE, lastAlerted.err)
            ELSE Answer(lastAlerted.isNil \/ lastAlerted.RevisionOrderNumber
                                               < ctx.previousCompleted.RevisionOrderNumber,
                        "nil")
       ELSE IF ctx.previousCompleted.Status = TaskFailed
       THEN afterFailure(ctx, lastAlerted, w)
       ELSE Answer(FALSE, "nil")

\* exec.go:502-511: the revision order number of the previous run is stored
TaskFailTransition_CreateAlertRecord(ctx, id) ==
    [newAlertRecord(ctx, TaskFailTransitionId, id) EXCEPT
        !.RevisionOrderNumber = IF ctx.previousCompleted.nil THEN -1
                                ELSE ctx.previousCompleted.RevisionOrderNumber]

Triggers ==
    {"FirstFailureInVersion", "FirstFailureInVariant", "FirstFailureInTaskType",
     "TaskFailTransition"}

ShouldExecute(t, ctx, db, w) ==
    CASE t = "FirstFailureInVersion" -> FirstFailureInVersion_ShouldExecute(ctx, db)
      [] t = "FirstFailureInVariant" -> FirstFailureInVariant_ShouldExecute(ctx, db)
      [] t = "FirstFailureInTaskType" -> FirstFailureInTaskType_ShouldExecute(ctx, db)
      [] t = "TaskFailTransition" -> TaskFailTransition_ShouldExecute(ctx, db, w)

CreateAlertRecord(t, ctx, id) ==
    CASE t = "FirstFailureInVersion" -> newAlertRecord(ctx, FirstVersionFailureId, id)
      [] t = "FirstFailureInVariant" -> newAlertRecord(ctx, FirstVariantFailureId, id)
      [] t = "FirstFailureInTaskType" -> newAlertRecord(ctx, FirstTaskTypeFailureId, id)
      [] t = "TaskFailTransition" -> TaskFailTransition_CreateAlertRecord(ctx, id)

\* the key a trigger files a failure under
KeyOf(t, task) ==
    CASE t = "FirstFailureInVersion" -> <<task.Project, task.Version>>
      [] t = "FirstFailureInVariant" -> <<task.Version, task.BuildVariant>>
      [] t = "FirstFailureInTaskType" -> <<task.Version, task.DisplayName>>
      [] t = "TaskFailTransition" -> <<task.DisplayName, task.BuildVariant, task.Project>>

\* the evaluation as the history keeps it
Evaluation(t, ctx, db, answer) ==
    [key |-> KeyOf(t, ctx.task), Status |-> ctx.task.Status,
     previousCompleted |-> ctx.previousCompleted, ok |-> db.ok,
     res |-> answer.res, err |-> answer.err, before |-> db.records,
     failedBefore |-> \E s \in seen : s.key = KeyOf(t, ctx.task),
     foundBefore |-> \E s \in seen : s.key = KeyOf(t, ctx.task) /\ s.ok]

\* a fresh id for a record: records alike in everything else differ in it
NewObjectId(t, ctx, records) ==
    1 + Cardinality({r \in records :
                        [r EXCEPT !.Id = 0] = CreateAlertRecord(t, ctx, 0)})

\* the caller of the triggers, with the record stored: ShouldExecute, and
\* when it is true the record of CreateAlertRecord is inserted
Store(t, ctx, db, answer) ==
    /\ alertRecords' =
         IF answer.res
         THEN alertRecords \cup
                  {CreateAlertRecord(t, ctx, NewObjectId(t, ctx, alertRecords))}
         ELSE alertRecords
    /\ seen' = IF ctx.task.Status = TaskFailed /\ t # "TaskFailTransition"
               THEN seen \cup {[key |-> KeyOf(t, ctx.task), ok |-> db.ok]}
               ELSE seen
    /\ last' = <<Evaluation(t, ctx, db, answer)>>

\* the alerts a history may hold: no further alert is raised beyond MaxRecords
Evaluate(t, task, prev, ok, w) ==
    /\ trig = t
    /\ LET answer == ShouldExecute(t, [task |-> task, previousCompleted |-> prev],
                                   [records |-> alertRecords, ok |-> ok], w)
       IN /\ answer.res => Cardinality(alertRecords) < MaxRecords
          /\ Store(t, [task |-> task, previousCompleted |-> prev],
                   [records |-> alertRecords, ok |-> ok], answer)
    /\ UNCHANGED <<execVars, trig>>

\* the record lookup is made for a failed task, by TaskFailTransition only
\* when the task has run before
Consulted(t, task, prev) ==
    task.Status = TaskFailed /\ (t = "TaskFailTransition" => ~prev.nil)

\* the keys of the failed tasks whose record lookup failed
FailedLookups == {s \in seen : ~s.ok}

\* the lookup may fail once more
MayFail(t, task) ==
    \/ t = "TaskFailTransition"
    \/ [key |-> KeyOf(t, task), ok |-> FALSE] \in seen
    \/ Cardinality(FailedLookups) < MaxLookupFailures

\* the fates of the record lookup drawn for the trigger asked: it works, it fails
LookupFates(t, task, prev) ==
    IF trig = t /\ Consulted(t, task, prev) /\ MayFail(t, task) THEN BOOLEAN ELSE {TRUE}

InitAlerts ==
    /\ params = Raw(ZeroCmd, FALSE)
    /\ exp = EmptyMap
    /\ InitRest
    /\ trig \in Triggers \ {"TaskFailTransition"}
    /\ alertRecords = {}
    /\ seen = {}
    /\ last = <<>>

NextAlerts ==
    \/ \E task \in Tasks : \E ok \in LookupFates("FirstFailureInVersion", task, NoPrevious) :
          Evaluate("FirstFailureInVersion", task, NoPrevious, ok, Found(0))
    \/ \E task \in Tasks : \E ok \in LookupFates("FirstFailureInVariant", task, NoPrevious) :
          Evaluate("FirstFailureInVariant", task, NoPrevious, ok, Found(0))
    \/ \E task \in Tasks : \E ok \in LookupFates("FirstFailureInTaskType", task, NoPrevious) :
          Evaluate("FirstFailureInTaskType", task, NoPrevious, ok, Found(0))

SpecAlerts == InitAlerts /\ [][NextAlerts]_vars

\* the tasks TaskFailTransition is asked about: two task types of one variant
TransitionTasks == {t \in Tasks : t.BuildVariant = "windows"}

InitTransition ==
    /\ params = Raw(ZeroCmd, FALSE)
    /\ exp = EmptyMap
    /\ InitRest
    /\ trig = "TaskFailTransition"
    /\ alertRecords = {}
    /\ seen = {}
    /\ last = <<>>

NextTransition ==
    \E task \in TransitionTasks : \E prev \in PreviousOf(task) :
        \E ok \in LookupFates("TaskFailTransition", task, prev) :
            \E w \in LookupsAfter(prev, ok) :
                Evaluate("TaskFailTransition", task, prev, ok, w)

SpecTransition == InitTransition /\ [][NextTransition]_vars

(***************************************************************************)
(* Properties.                                                             *)
(***************************************************************************)
\* the command as ParseParams left it, before Execute expands it
Normalized == ParseParams(ZeroCmd, params).c

\* every field doExpansions has to expand
AllFields(cmd) ==
    {Lbl("WorkingDir", 0, ""), Lbl("Binary", 0, ""), Lbl("Command", 0, "")}
    \cup {Lbl("Args", i, "") : i \in 1..Len(cmd.Args)}
    \cup {Lbl("Env", 0, k) : k \in DOMAIN cmd.Env}
    \cup {Lbl("Path", i, "") : i \in 1..Len(cmd.Path)}

FieldValue(cmd, l) ==
    IF l.f = "WorkingDir" THEN cmd.WorkingDir
    ELSE IF l.f = "Binary" THEN cmd.Binary
    ELSE IF l.f = "Command" THEN cmd.Command
    ELSE IF l.f = "Args" THEN cmd.Args[l.i]
    ELSE IF l.f = "Env" THEN cmd.Env[l.k]
    ELSE cmd.Path[l.i]

\* the expansions and re-tokenizations of cmd that fail under e
FailingFields(cmd, e) ==
    {l \in AllFields(cmd) : ExpandString(e, FieldValue(cmd, l)).err}
    \cup {Lbl("ArgsSplit", i, "") : i \in
            {j \in 1..Len(cmd.Args) :
                /\ ExpandString(e, cmd.Args[j]).s # Empty
                /\ ShlexSplit(ExpandString(e, cmd.Args[j]).s).err}}

\* Execute has got past doExpansions
Expanded == pc \in {"built", "created", "started", "ran", "returned"}

\* the constructor has handed the process to cmd.Run
Launched == proc # "none" /\ pc \in {"started", "ran", "returned"}

\* the record runCommand writes when it drops a failure
IsFailureRecord(r) ==
    /\ r.msg = "run error"
    /\ r.level = "notice"
    /\ r.fields.task = TaskID
    /\ r.fields.binary = c.Binary
    /\ r.fields.background = c.Background
    /\ r.fields.silent = c.Silent
    /\ r.fields.continue = c.ContinueOnError

\* C1: when the caller's signal fired while an attached process was running,
\* Execute returns Aborted, with and without continue_on_err
C1_CancelledAttachedIsAborted ==
    (pc = "returned" /\ ~c.Background /\ firedProc = "running") => result = "Aborted"

C1_Witness ==
    /\ pc = "returned" /\ ~c.Background /\ firedProc = "running"
    /\ c.ContinueOnError /\ result = "Aborted"

\* C2 as stated: Aborted is returned only by an attached command whose
\* process was still running when the caller's signal fired
C2_AbortedOnlyAttachedRunning ==
    result = "Aborted" => (~c.Background /\ firedProc = "running")

\* C2 as amended: Execute returns Aborted exactly when the caller's signal
\* has fired by the time cmd.Run has returned and Execute looks at ctx.Err(),
\* in the background or not, the process finished or not
C2_AbortedIffCancelledAtCheck ==
    [][/\ (pc = "ran" /\ pc' = "returned") => (result' = "Aborted" <=> ctxDone)
       /\ result' = "Aborted" => (pc' = "returned" /\ ctxDone')]_vars

C2_Witness ==
    /\ pc = "returned" /\ result = "Aborted"
    /\ c.Background /\ firedProc = "exited_ok"

\* C3: a failed run under continue_on_err, the signal not fired, returns nil
\* after a notice record with the task id, the binary and the flags; without
\* continue_on_err the failure is returned
C3_ContinueOnErrorLogsThenNil ==
    (pc = "returned" /\ runErr \in {"ProcessFailure", "LaunchError"} /\ result # "Aborted")
        => IF c.ContinueOnError
           THEN result = "nil" /\ \E i \in 1..Len(log) : IsFailureRecord(log[i])
           ELSE result = runErr

C3_Witness ==
    /\ pc = "returned" /\ runErr = "ProcessFailure" /\ c.ContinueOnError
    /\ result = "nil" /\ ~ctxDone

\* C4: every background process that was launched has a completion trigger
\* registered that releases its private signal, or the signal is released
C4_DetachedAlwaysHasTrigger ==
    (Launched /\ c.Background) => (trigger \in {"registered", "fired"} \/ privDone)

\* C5: a background process runs under the private signal, which the caller's
\* signal neither cancels nor uses to terminate the process; an attached
\* process runs under the caller's signal and is asked to stop when it fires
C5_DetachedIndependentOfCaller ==
    /\ (proc # "none" /\ c.Background) =>
          /\ ictx = "private"
          /\ proc # "killed"
          /\ (proc = "running" => ~privDone /\ ~ProcSignalDone)
    /\ (proc # "none" /\ ~c.Background) =>
          /\ ictx = "caller"
          /\ (proc = "running" /\ ctxDone => ProcSignalDone)

C5_Witness ==
    /\ c.Background /\ proc = "running" /\ ctxDone /\ firedProc = "running"
    /\ pc = "returned"

\* C6: a failed creation in the background has released the private signal
\* when the launch error is returned; no failed launch leaves one unreleased
C6_FailedLaunchReleasesSignal ==
    runErr = "LaunchError" => (proc = "none" /\ (ictx = "private" => privDone))

C6_Witness ==
    runErr = "LaunchError" /\ c.Background /\ ictx = "private" /\ privDone

\* C7: no process is created and no PID recorded unless normalization and
\* expansion succeeded and the environment is composed; a failed
\* normalization or expansion returns with no process and no PID
C7_NoProcessBeforeExpansion ==
    /\ (proc # "none" \/ ictx # "none" \/ tracked # {}) =>
          /\ ParseParams(ZeroCmd, params).err = "nil"
          /\ FailingFields(Normalized, exp) = {}
          /\ catcher = {}
          /\ {MarkerTaskID, MarkerAgentPID, "GOCACHE", "CI", "TMP", "TMPDIR", "TEMP"}
                \subseteq DOMAIN c.Env
    /\ (pc = "parseFailed" \/ result = "ExpansionError" \/ result = "WorkDirError") =>
          (proc = "none" /\ ictx = "none" /\ tracked = {})

C7_Witness ==
    /\ pc = "returned" /\ result = "ExpansionError"
    /\ proc = "none" /\ tracked = {}

\* C8: doExpansions attempts every field whatever failed before, and returns
\* an error exactly when an expansion or a re-tokenization failed, the error
\* holding all the failures
C8_AllExpansionsAttempted ==
    Expanded =>
        /\ attempted = AllFields(Normalized)
        /\ catcher = FailingFields(Normalized, exp)
        /\ (result = "ExpansionError") <=> (FailingFields(Normalized, exp) # {})

C8_Witness ==
    /\ Expanded /\ result = "ExpansionError"
    /\ Lbl("WorkingDir", 0, "") \in catcher
    /\ Lbl("Args", 2, "") \in catcher
    /\ Lbl("ArgsSplit", 1, "") \in catcher
    /\ Lbl("Path", 2, "") \in catcher
    /\ Lbl("Env", 0, "L") \in catcher

\* C9: a command string together with a binary or with arguments makes
\* ParseParams fail, and binary and args are not set from the command
C9_CommandConflictFails ==
    (pc # "new" /\ params.Command # Empty
        /\ (params.Binary # Empty \/ Len(params.Args) > 0)) =>
        /\ pc = "parseFailed"
        /\ result = IF params.malformed THEN "DecodeError" ELSE "ConfigurationConflict"
        /\ c.Binary \in {params.Binary, Empty}
        /\ c.Args \in {params.Args, <<>>}

C9_Witness ==
    /\ pc = "parseFailed" /\ result = "ConfigurationConflict"
    /\ params.Command # Empty /\ params.Binary = Empty /\ Len(params.Args) > 0

\* C10 as stated: after a successful ParseParams exactly one of the command
\* string and the binary/args pair is populated
C10_ExactlyOnePopulated ==
    pc = "parsed" =>
        ((c.Command # Empty) # (c.Binary # Empty \/ Len(c.Args) > 0))

\* C10 as amended: after a successful ParseParams the two forms were never
\* both given: a non-empty command stays populated, binary and args were
\* empty and are now its first and its remaining words; with an empty
\* command binary and args are as given, and both may be empty
C10_AtMostOneGiven ==
    pc = "parsed" =>
        IF c.Command # Empty
        THEN /\ params.Binary = Empty /\ Len(params.Args) = 0
             /\ c.Command = params.Command
             /\ ~ShlexSplit(c.Command).err
             /\ Len(ShlexSplit(c.Command).toks) >= 1
             /\ <<c.Binary>> \o c.Args = ShlexSplit(c.Command).toks
        ELSE c.Binary = params.Binary /\ c.Args = params.Args

C10_Witness ==
    /\ pc = "parsed" /\ c.Command # Empty
    /\ c.Binary # Empty /\ Len(c.Args) > 0

\* C11: a specification that ignores the standard output and redirects the
\* standard error to it fails ParseParams; no normalized command does both
C11_IgnoreAndRedirectFails ==
    /\ (pc # "new" /\ params.IgnoreStandardOutput /\ params.RedirectStandardErrorToOutput) =>
          /\ pc = "parseFailed"
          /\ result # "nil"
          /\ (~params.malformed /\ splitCommands(Decode(params)).err = "nil")
                => result = "ConfigurationConflict"
    /\ pc \in {"parsed", "renormalized"} =>
          ~(c.IgnoreStandardOutput /\ c.RedirectStandardErrorToOutput)

C11_Witness ==
    /\ pc = "parseFailed" /\ result = "ConfigurationConflict"
    /\ params.IgnoreStandardOutput /\ params.RedirectStandardErrorToOutput
    /\ ~params.Silent /\ params.Command = Empty

\* C12: a silent specification ignores both streams after normalization,
\* whatever the two flags were before
C12_SilentIgnoresBoth ==
    (pc = "parsed" /\ params.Silent) =>
        (c.Silent /\ c.IgnoreStandardOutput /\ c.IgnoreStandardError)

C12_Witness ==
    /\ pc = "parsed" /\ params.Silent
    /\ ~params.IgnoreStandardOutput /\ ~params.IgnoreStandardError
    /\ c.IgnoreStandardOutput /\ c.IgnoreStandardError

\* C13: normalizing a normalized command again, its command string cleared,
\* succeeds and changes no field
C13_NormalizationIdempotent ==
    /\ pc # "renormalizeFailed"
    /\ pc = "renormalized" =>
          (result = "nil" /\ c = [Normalized EXCEPT !.Command = Empty])

C13_Witness ==
    /\ pc = "renormalized" /\ params.Command # Empty /\ params.Silent
    /\ c.Binary # Empty /\ c.Env # EmptyMap

\* the command as doExpansions leaves it
PostExpansion == doExpansions(Normalized, exp).c

\* the add_to_path segments, expanded
ExpandedSegments ==
    [i \in 1..Len(Normalized.Path) |-> ExpandString(exp, Normalized.Path[i]).s]

\* PATH is among the expansions copied into the environment
PathCopied ==
    /\ "PATH" \in DOMAIN exp
    /\ \/ Normalized.AddExpansionsToEnv
       \/ \E i \in 1..Len(Normalized.IncludeExpansionsInEnv) :
             Normalized.IncludeExpansionsInEnv[i] = "PATH"

\* C14 as stated: with add_to_path not empty, the PATH handed to the process
\* is the expanded segments in order, then the inherited PATH
C14_PathIsSegmentsThenInherited ==
    (pc = "built" /\ Len(Normalized.Path) > 0) =>
        c.Env["PATH"] = JoinPath(Append(ExpandedSegments, InheritedPath))

\* C14 as amended: the same, unless the expansions hold PATH and it is copied
\* into the environment (add_expansions_to_env, or include_expansions_in_env
\* naming PATH); then PATH is the value of that expansion
C14_PathUnlessExpansionCopied ==
    (pc = "built" /\ Len(Normalized.Path) > 0) =>
        c.Env["PATH"] = IF PathCopied THEN exp["PATH"]
                        ELSE JoinPath(Append(ExpandedSegments, InheritedPath))

C14_Witness ==
    /\ pc = "built" /\ Len(Normalized.Path) = 2 /\ ~PathCopied
    /\ "PATH" \in DOMAIN Normalized.Env
    /\ c.Env["PATH"] = <<"b", " ", "b", ":", "q", ":">> \o InheritedPath

\* C15 as stated: with add_expansions_to_env, every key of the expansions has
\* the value of its expansion in the environment handed to the process
C15_ExpansionsWinEverywhere ==
    (pc = "built" /\ c.AddExpansionsToEnv) =>
        \A k \in DOMAIN exp : c.Env[k] = exp[k]

\* C15 as amended: the same for every key but the task-id and the agent-pid
\* markers, which getProc sets afterwards to the task id and the agent's pid
C15_ExpansionsWinExceptMarkers ==
    (pc = "built" /\ c.AddExpansionsToEnv) =>
        \A k \in DOMAIN exp :
            c.Env[k] = IF k = MarkerTaskID THEN TaskID
                       ELSE IF k = MarkerAgentPID THEN AgentPID
                       ELSE exp[k]

C15_Witness ==
    /\ pc = "built" /\ c.AddExpansionsToEnv
    /\ {"PATH", "CI"} \subseteq DOMAIN exp
    /\ Len(Normalized.Path) > 0
    /\ "CI" \in DOMAIN Normalized.Env
    /\ c.Env["PATH"] = exp["PATH"] /\ c.Env["CI"] = exp["CI"]

\* the task's temp directory as Execute got it: empty when it does not exist
TaskTmpDir ==
    IF \E i \in 1..Len(log) : log[i].msg = "tmp directory"
    THEN Empty ELSE WorkDir \o <<"/", "tmp">>

\* the value a derived variable is given when it is injected
DerivedValue(k) ==
    IF k = MarkerTaskID THEN TaskID
    ELSE IF k = MarkerAgentPID THEN AgentPID
    ELSE IF k = "GOCACHE" THEN c.WorkingDir \o <<"/", ".gocache">>
    ELSE IF k = "CI" THEN <<"true">>
    ELSE TaskTmpDir

\* C16 as stated: each derived variable keeps the value the environment held
\* before the injection, and gets the derived value when it held none
C16_DerivedNeverOverride ==
    pc = "built" =>
        \A k \in {MarkerTaskID, MarkerAgentPID, "GOCACHE", "CI", "TMP", "TMPDIR", "TEMP"} :
            c.Env[k] = IF k \in DOMAIN PostExpansion.Env THEN PostExpansion.Env[k]
                       ELSE DerivedValue(k)

\* C16 as amended: that holds for GOCACHE, CI, TMP, TMPDIR and TEMP; the
\* task-id and agent-pid markers are always set to the task id and the
\* agent's pid, replacing a value already in the environment
C16_DerivedKeptExceptMarkers ==
    pc = "built" =>
        /\ \A k \in {"GOCACHE", "CI", "TMP", "TMPDIR", "TEMP"} :
              c.Env[k] = IF k \in DOMAIN PostExpansion.Env THEN PostExpansion.Env[k]
                         ELSE DerivedValue(k)
        /\ c.Env[MarkerTaskID] = TaskID
        /\ c.Env[MarkerAgentPID] = AgentPID

C16_Witness ==
    /\ pc = "built"
    /\ {"CI", "GOCACHE", "TMP"} \subseteq DOMAIN Normalized.Env
    /\ c.Env["CI"] = <<"u">> /\ c.Env["TMP"] = <<"u">>
    /\ c.Env["TEMP"] = WorkDir \o <<"/", "tmp">>

NonEmpty(a) == a # Empty

\* C17: without keep_empty_args the arguments handed to the process are the
\* expanded arguments without the empty ones, in their order; with it they
\* are the expanded arguments
C17_EmptyArgsStripped ==
    pc = "built" =>
        c.Args = IF c.KeepEmptyArgs THEN PostExpansion.Args
                 ELSE SelectSeq(PostExpansion.Args, NonEmpty)

C17_Witness ==
    /\ pc = "built" /\ ~c.KeepEmptyArgs
    /\ PostExpansion.Args = <<Empty, Empty>>
    /\ c.Args = <<>>

WhitespaceOnly(v) == v # Empty /\ \A n \in 1..Len(v) : v[n] = " "

\* C18: an argument whose expanded value is non-empty and all blanks is among
\* the arguments handed to the process, with and without keep_empty_args
C18_WhitespaceArgsKept ==
    pc = "built" =>
        \A i \in 1..Len(Normalized.Args) :
            WhitespaceOnly(ExpandString(exp, Normalized.Args[i]).s) =>
                \E j \in 1..Len(c.Args) : c.Args[j] = ExpandString(exp, Normalized.Args[i]).s

\* C19: a process that was created is in the registry under the task id
\* with its PID from the moment the constructor has returned its handle,
\* attached or in the background; nothing is recorded while no process was
\* created or when the creation failed
C19_TrackedBeforeRunning ==
    /\ Launched => <<TaskID, ProcPid>> \in tracked
    /\ (proc = "none" \/ runErr = "LaunchError") => tracked = {}

C19_Witness ==
    /\ pc = "started" /\ proc = "running" /\ c.Background
    /\ tracked = {<<TaskID, ProcPid>>}

IsDumpStart(r) == r.sink = "system" /\ r.level = "debug" /\ r.msg = "dumping running processes"

IsDumpListing(r) == r.sink = "system" /\ r.level = "debug" /\ r.msg = "all processes"

IsRunErrorNotice(r) ==
    /\ r.level = "notice"
    /\ \/ IsFailureRecord(r)
       \/ r.msg = "error" /\ r.fields = <<runErr>>

\* C20: a call that has returned Aborted has put the dump of the tracked
\* processes on the system log and, when the run ended with an error, a
\* record of that error at notice level; a call that has returned anything
\* else has put no dump on the log
C20_AbortedIffDumped ==
    pc = "returned" =>
        IF result = "Aborted"
        THEN /\ \E i \in 1..(Len(log) - 1) : IsDumpStart(log[i]) /\ IsDumpListing(log[i + 1])
             /\ runErr # "nil" => \E k \in 1..Len(log) : IsRunErrorNotice(log[k])
        ELSE \A i \in 1..Len(log) : ~IsDumpStart(log[i]) /\ ~IsDumpListing(log[i])

C20_Witness ==
    /\ pc = "returned" /\ result = "Aborted" /\ runErr = "ProcessFailure"
    /\ ~c.ContinueOnError
    /\ Len(log) >= 3
    /\ IsDumpStart(log[Len(log) - 2]) /\ IsDumpListing(log[Len(log) - 1])
    /\ log[Len(log)].level = "notice" /\ log[Len(log)].msg = "error"

\* the key of a stored record, for the trigger that stored it
RecordKey(t, r) ==
    CASE t = "FirstFailureInVersion" -> <<r.ProjectId, r.VersionId>>
      [] t = "FirstFailureInVariant" -> <<r.VersionId, r.Variant>>
      [] t = "FirstFailureInTaskType" -> <<r.VersionId, r.TaskName>>
      [] t = "TaskFailTransition" -> <<r.TaskName, r.Variant, r.ProjectId>>

\* C21 as stated: a first-failure trigger answers true for a failed task
\* exactly when no failed task of the same key was evaluated before it
C21_FirstFailedTaskOnly ==
    (last # <<>> /\ last[1].Status = TaskFailed)
        => (last[1].res <=> ~last[1].failedBefore)

\* C21: a first-failure trigger answers true exactly for a failed task whose
\* record lookup works and whose key no failed task with a working lookup
\* was evaluated under before; the store holds at most one record for a key
C21_FirstLookedUpFailureOnly ==
    /\ last # <<>>
         => (last[1].res <=> (/\ last[1].Status = TaskFailed
                              /\ last[1].ok
                              /\ ~last[1].foundBefore))
    /\ \A r1 \in alertRecords, r2 \in alertRecords :
           RecordKey(trig, r1) = RecordKey(trig, r2) => r1 = r2

C21_Witness ==
    /\ trig = "FirstFailureInTaskType"
    /\ Cardinality(alertRecords) = 2
    /\ last # <<>>
    /\ last[1].Status = TaskFailed /\ last[1].ok /\ last[1].foundBefore
    /\ ~last[1].res /\ last[1].err = "nil"

\* the records stored before the latest evaluation under its key
AlertedBefore == {r \in last[1].before : RecordKey(trig, r) = last[1].key}

\* the latest evaluation is of a failed task whose previous run passed
PassToFail ==
    /\ last # <<>>
    /\ last[1].Status = TaskFailed
    /\ ~last[1].previousCompleted.nil
    /\ last[1].previousCompleted.Status = TaskSucceeded

C23_LookupFailureIsError ==
    (last # <<>> /\ last[1].Status = TaskFailed /\ ~last[1].ok)
        => (~last[1].res /\ last[1].err # "nil")

====
